---- MODULE Spec2Model ----
(***************************************************************************)
(* A model of the CHIP-8 interpreter of scripts/cpu.js together with its   *)
(* collaborators scripts/renderer.js (display buffer), scripts/keyboard.js *)
(* (key state, one-shot key callback) and its driver scripts/chip8.js      *)
(* (frame loop, asynchronous ROM load).                                     *)
(*                                                                         *)
(* JavaScript values that are not numbers are modelled by negative         *)
(* integers (NaN, Undefined, Null); every real value of the program that   *)
(* shares a variable with them is a non-negative integer.                  *)
(***************************************************************************)
EXTENDS Integers, Sequences, FiniteSets, TLC

\* ------------------------------------------------------------ JS values
NaN == -1
Undefined == -2
Null == -3

\* ------------------------------------------------------------ constants
MemSize == 4096
NumRegs == 16
ProgramStart == 512
speed == 10
cols == 64
rows == 32
fps == 60
width == 8

\* ------------------------------------------------------------ bounds
\* Date.now() - then (in ms) up to which frame callbacks are explored.
MaxNow == 36

Byte == 0..255
Regs == 0..(NumRegs - 1)

\* ------------------------------------------------------------ bit operations
RECURSIVE BitAnd(_, _)
BitAnd(a, b) ==
    IF a = 0 \/ b = 0 THEN 0
    ELSE (a % 2) * (b % 2) + 2 * BitAnd(a \div 2, b \div 2)

RECURSIVE BitOr(_, _)
BitOr(a, b) ==
    IF a = 0 THEN b
    ELSE IF b = 0 THEN a
    ELSE (IF a % 2 = 1 \/ b % 2 = 1 THEN 1 ELSE 0) + 2 * BitOr(a \div 2, b \div 2)

RECURSIVE BitXor(_, _)
BitXor(a, b) ==
    IF a = 0 THEN b
    ELSE IF b = 0 THEN a
    ELSE ((a + b) % 2) + 2 * BitXor(a \div 2, b \div 2)

\* Storing a number into a Uint8Array cell keeps its low 8 bits.
ToUint8(n) == ((n % 256) + 256) % 256

\* ------------------------------------------------------------ keyboard.js
\* event.which -> CHIP-8 key
keymap ==
    (49 :> 1) @@ (50 :> 2) @@ (51 :> 3) @@ (52 :> 12) @@
    (81 :> 4) @@ (87 :> 5) @@ (69 :> 6) @@ (82 :> 13) @@
    (65 :> 7) @@ (83 :> 8) @@ (68 :> 9) @@ (70 :> 14) @@
    (90 :> 10) @@ (88 :> 0) @@ (67 :> 11) @@ (86 :> 15)

\* this.keymap[event.which]: undefined for a code that is not mapped
KeyOf(which) == IF which \in DOMAIN keymap THEN keymap[which] ELSE Undefined

\* keysPressed is an object: a partial function from property to boolean
isKeyPressed(kp, keyCode) == keyCode \in DOMAIN kp /\ kp[keyCode]

\* JS truthiness of a key value: undefined and 0 are falsy
Truthy(key) == key # Undefined /\ key # 0

\* ------------------------------------------------------------ renderer.js
\* The display is a JS Array created with new Array(cols * rows): it has no
\* elements until one is written, and a write past its length extends it.
\* It is modelled as the partial function of its written elements.
EmptyDisplay == << >>

\* display[pixel] read as a number (undefined ^ 1 = 1, !undefined = true)
PixelAt(d, pixel) == IF pixel \in DOMAIN d THEN d[pixel] ELSE 0

WrapX(x) == IF x > cols THEN x - cols ELSE IF x < 0 THEN x + cols ELSE x

WrapY(y) == IF y > rows THEN y - rows ELSE IF y < 0 THEN y + rows ELSE y

PixelIndex(x, y) == WrapX(x) + WrapY(y) * cols

\* display[pixel] = value: an element of the array is replaced, or the array
\* gets the element it did not have yet
PixelPut(d, pixel, value) ==
    IF pixel \in DOMAIN d THEN [d EXCEPT ![pixel] = value] ELSE (pixel :> value) @@ d

\* setPixel that lights the pixel instead of toggling it.
setPixelLight(d, x, y) ==
    [display |-> PixelPut(d, PixelIndex(x, y), 1), erased |-> FALSE]

\* setPixel that returns display[pixel] instead of !display[pixel].
setPixelInverted(d, x, y) ==
    LET pixel == PixelIndex(x, y)
        new == BitXor(PixelAt(d, pixel), 1)
    IN [display |-> PixelPut(d, pixel, new), erased |-> (new = 1)]

\* setPixel(x, y): the new display and the returned boolean
setPixel(d, x, y) ==
    LET pixel == PixelIndex(x, y)
        new == BitXor(PixelAt(d, pixel), 1)
    IN [display |-> PixelPut(d, pixel, new), erased |-> (new = 0)]

\* ------------------------------------------------------------ cpu.js: state
VARIABLES
    memory,          \* cpu.memory: Uint8Array(4096)
    v,               \* cpu.v: Uint8Array(16)
    i,               \* cpu.i
    delayTimer,      \* cpu.delayTimer
    soundTimer,      \* cpu.soundTimer
    pc,              \* cpu.pc: a number, NaN or Undefined
    stack,           \* cpu.stack: Array of return addresses
    paused,          \* cpu.paused
    display,         \* renderer.display
    keysPressed,     \* keyboard.keysPressed
    onNextKeyPress,  \* keyboard.onNextKeyPress: Null, or the register x its closure captured
    speakerOn,       \* whether the speaker was last told to play
    request,         \* the XMLHttpRequest of loadRom: "sent" or "done"
    now,             \* Date.now() - then, in ms, at the last frame callback
    loop,            \* whether a frame callback is scheduled
    error,           \* << >>, or <<opcode>> once executeInstruction has thrown
    batch            \* the instructions the last cycle() call executed, in order

vars == <<memory, v, i, delayTimer, soundTimer, pc, stack, paused, display,
          keysPressed, onNextKeyPress, speakerOn, request, now, loop, error, batch>>

\* The machine as one value, for the operators that compute cycle().
Machine ==
    [memory |-> memory, v |-> v, i |-> i, delayTimer |-> delayTimer,
     soundTimer |-> soundTimer, pc |-> pc, stack |-> stack, paused |-> paused,
     display |-> display, keysPressed |-> keysPressed,
     onNextKeyPress |-> onNextKeyPress, speakerOn |-> speakerOn,
     error |-> error, batch |-> batch]

\* ------------------------------------------------------------ cpu.js: memory
sprites ==
    << 240, 144, 144, 144, 240,   32,  96,  32,  32, 112,
       240,  16, 240, 128, 240,  240,  16, 240,  16, 240,
       144, 144, 240,  16,  16,  240, 128, 240,  16, 240,
       240, 128, 240, 144, 240,  240,  16,  32,  64,  64,
       240, 144, 240, 144, 240,  240, 144, 240,  16, 240,
       240, 144, 240, 144, 144,  224, 144, 224, 144, 224,
       240, 128, 128, 128, 240,  224, 144, 144, 144, 224,
       240, 128, 240, 128, 240,  240, 128, 240, 128, 128 >>

\* memory is a Uint8Array(MemSize), zero when created. It is modelled as the
\* function of its non-zero cells; every other cell of 0..MemSize-1 holds 0.
ZeroMemory == << >>

\* A Uint8Array read: an index outside the array (or NaN, undefined) reads
\* undefined, which every use in cpu.js coerces to 0.
MemRead(mem, a) == IF a \in DOMAIN mem THEN mem[a] ELSE 0

\* A Uint8Array write keeps the low 8 bits; a write outside the array is
\* ignored.
MemWrite(mem, a, b) ==
    IF a \notin 0..(MemSize - 1) THEN mem
    ELSE LET byte == ToUint8(b)
             dom == IF byte = 0 THEN (DOMAIN mem) \ {a} ELSE (DOMAIN mem) \cup {a}
         IN [c \in dom |-> IF c = a THEN byte ELSE mem[c]]

\* for (k = 0; k < bytes.length; k++) memory[base + k] = bytes[k]
CopyIn(mem, base, bytes) ==
    LET target == (base..(base + Len(bytes) - 1)) \cap (0..(MemSize - 1))
        val(a) == IF a \in target THEN ToUint8(bytes[a - base + 1]) ELSE mem[a]
        dom == {a \in (DOMAIN mem) \cup target : val(a) # 0}
    IN [a \in dom |-> val(a)]

loadSpritesIntoMemory(mem) == CopyIn(mem, 0, sprites)

loadProgramIntoMemory(mem, program) == CopyIn(mem, ProgramStart, program)

\* (memory[pc] << 8) | memory[pc + 1]
Fetch(mem, p) ==
    IF p < 0 THEN 0 ELSE MemRead(mem, p) * 256 + MemRead(mem, p + 1)

\* pc += 2 (NaN and undefined give NaN)
PcPlus2(p) == IF p < 0 THEN NaN ELSE p + 2

\* ------------------------------------------------------------ cpu.js: opcodes
\* group 0x8: each operator maps the register file to the register file,
\* statement by statement.
Op8xy0(vv, x, y) == [vv EXCEPT ![x] = vv[y]]

Op8xy1(vv, x, y) == [vv EXCEPT ![x] = BitOr(vv[x], vv[y])]

Op8xy2(vv, x, y) == [vv EXCEPT ![x] = BitAnd(vv[x], vv[y])]

Op8xy3(vv, x, y) == [vv EXCEPT ![x] = BitXor(vv[x], vv[y])]

\* Op8xy4 with sum read back from the register, already truncated.
Op8xy4Truncated(vv, x, y) ==
    LET sum == ToUint8(vv[x] + vv[y])
        v1 == [vv EXCEPT ![x] = sum]
        v2 == [v1 EXCEPT ![15] = IF sum > 255 THEN 1 ELSE 0]
    IN [v2 EXCEPT ![x] = sum]

\* let sum = (v[x] += v[y]): the assignment expression has the value of the
\* untruncated sum; then v[0xf] = 0 or 1, then v[x] = sum.
Op8xy4(vv, x, y) ==
    LET sum == vv[x] + vv[y]
        v1 == [vv EXCEPT ![x] = ToUint8(sum)]
        v2 == [v1 EXCEPT ![15] = IF sum > 255 THEN 1 ELSE 0]
    IN [v2 EXCEPT ![x] = ToUint8(sum)]

\* v[0xf] = 0; if (v[x] > v[y]) v[0xf] = 1; v[x] -= v[y]
Op8xy5(vv, x, y) ==
    LET v1 == [vv EXCEPT ![15] = 0]
        v2 == IF v1[x] > v1[y] THEN [v1 EXCEPT ![15] = 1] ELSE v1
    IN [v2 EXCEPT ![x] = ToUint8(v2[x] - v2[y])]

\* v[0xf] = v[x] & 1; v[x] >>= 1
Op8xy6(vv, x, y) ==
    LET v1 == [vv EXCEPT ![15] = vv[x] % 2]
    IN [v1 EXCEPT ![x] = v1[x] \div 2]

\* v[0xf] = 0; if (v[y] > v[x]) v[0xf] = 1; v[x] = v[y] - v[x]
Op8xy7(vv, x, y) ==
    LET v1 == [vv EXCEPT ![15] = 0]
        v2 == IF v1[y] > v1[x] THEN [v1 EXCEPT ![15] = 1] ELSE v1
    IN [v2 EXCEPT ![x] = ToUint8(v2[y] - v2[x])]

\* Op8xyE with the flag set to the shifted-out bit itself.
Op8xyEBit(vv, x, y) ==
    LET v1 == [vv EXCEPT ![15] = vv[x] \div 128]
    IN [v1 EXCEPT ![x] = ToUint8(v1[x] * 2)]

\* v[0xf] = v[x] & 0x80; v[x] <<= 1
Op8xyE(vv, x, y) ==
    LET v1 == [vv EXCEPT ![15] = BitAnd(vv[x], 128)]
    IN [v1 EXCEPT ![x] = ToUint8(v1[x] * 2)]

Group8(vv, x, y, n) ==
    CASE n = 0 -> Op8xy0(vv, x, y)
      [] n = 1 -> Op8xy1(vv, x, y)
      [] n = 2 -> Op8xy2(vv, x, y)
      [] n = 3 -> Op8xy3(vv, x, y)
      [] n = 4 -> Op8xy4(vv, x, y)
      [] n = 5 -> Op8xy5(vv, x, y)
      [] n = 6 -> Op8xy6(vv, x, y)
      [] n = 7 -> Op8xy7(vv, x, y)
      [] n = 14 -> Op8xyE(vv, x, y)
      [] OTHER -> vv

\* 00EE: this.pc = this.stack.pop(); pop of an empty array gives undefined
OpReturn(m) ==
    IF Len(m.stack) = 0
    THEN [m EXCEPT !.pc = Undefined]
    ELSE [m EXCEPT !.pc = m.stack[Len(m.stack)],
                   !.stack = SubSeq(m.stack, 1, Len(m.stack) - 1)]

\* OpCall with the return address taken as if pc had not yet been advanced.
OpCallLate(m, nnn) == [m EXCEPT !.stack = Append(m.stack, PcPlus2(m.pc)), !.pc = nnn]

\* 2NNN: this.stack.push(this.pc); this.pc = nnn
OpCall(m, nnn) == [m EXCEPT !.stack = Append(m.stack, m.pc), !.pc = nnn]

\* group 0x0: 00E0 clears the display, 00EE returns, every other word of the
\* group falls through the inner switch
Group0(m, opcode) ==
    CASE opcode = 224 -> [m EXCEPT !.display = EmptyDisplay]
      [] opcode = 238 -> OpReturn(m)
      [] OTHER -> m

\* Math.floor(Math.random() * 0xff)
RandomValues == 0..254

OpRandom(m, x, kk, rand) == [m EXCEPT !.v[x] = BitAnd(rand, kk)]

\* DXYN, the inner loop from column col on: sprite is the row's byte, whose
\* bit 7 - col is the one (sprite << col) & 0x80 tests; v[x] and v[y] are
\* read again for every pixel.
RECURSIVE DrawCols(_, _, _, _, _, _)
DrawCols(m, x, y, sprite, row, col) ==
    IF col >= width THEN m
    ELSE IF (sprite \div (2 ^ (7 - col))) % 2 = 1
         THEN LET r == setPixel(m.display, m.v[x] + col, m.v[y] + row)
              IN DrawCols([m EXCEPT !.display = r.display,
                                    !.v[15] = IF r.erased THEN 1 ELSE @],
                          x, y, sprite, row, col + 1)
         ELSE DrawCols(m, x, y, sprite, row, col + 1)

\* DXYN, the outer loop from row on
RECURSIVE DrawRows(_, _, _, _, _)
DrawRows(m, x, y, height, row) ==
    IF row >= height THEN m
    ELSE DrawRows(DrawCols(m, x, y, MemRead(m.memory, m.i + row), row, 0),
                  x, y, height, row + 1)

\* OpDraw without the reset of the flag register before the loops.
OpDrawKeepFlag(m, x, y, n) == DrawRows(m, x, y, n, 0)

\* DXYN: this.v[0xf] = 0, then the two loops
OpDraw(m, x, y, n) == DrawRows([m EXCEPT !.v[15] = 0], x, y, n, 0)

\* group 0xE: EX9E, EXA1; every other low byte falls through
GroupE(m, x, kk) ==
    CASE kk = 158 -> IF isKeyPressed(m.keysPressed, m.v[x])
                     THEN [m EXCEPT !.pc = PcPlus2(m.pc)] ELSE m
      [] kk = 161 -> IF ~isKeyPressed(m.keysPressed, m.v[x])
                     THEN [m EXCEPT !.pc = PcPlus2(m.pc)] ELSE m
      [] OTHER -> m

\* OpWaitKey that pauses without registering the callback.
OpWaitKeyNoCallback(m, x) == [m EXCEPT !.paused = TRUE]

\* FX0A: pause, and register the one-shot callback bound to x
OpWaitKey(m, x) == [m EXCEPT !.paused = TRUE, !.onNextKeyPress = x]

\* OpBcd with the tens digit taken from v[x] / 10 without the % 100.
OpBcdTens(m, x) ==
    LET m1 == MemWrite(m.memory, m.i, m.v[x] \div 100)
        m2 == MemWrite(m1, m.i + 1, m.v[x] \div 10)
    IN [m EXCEPT !.memory = MemWrite(m2, m.i + 2, m.v[x] % 10)]

\* FX33: hundreds, tens and ones of v[x] at memory[i], [i + 1], [i + 2]
OpBcd(m, x) ==
    LET m1 == MemWrite(m.memory, m.i, m.v[x] \div 100)
        m2 == MemWrite(m1, m.i + 1, (m.v[x] % 100) \div 10)
    IN [m EXCEPT !.memory = MemWrite(m2, m.i + 2, m.v[x] % 10)]

\* FX55: memory[i + r] = v[r] for r = 0..x
OpStore(m, x) ==
    [m EXCEPT !.memory = CopyIn(m.memory, m.i, [k \in 1..(x + 1) |-> m.v[k - 1]])]

\* FX65: v[r] = memory[i + r] for r = 0..x
OpLoad(m, x) ==
    [m EXCEPT !.v = [r \in Regs |-> IF r <= x THEN MemRead(m.memory, m.i + r) ELSE m.v[r]]]

\* group 0xF, selected by the low byte; every other low byte falls through
GroupF(m, x, kk) ==
    CASE kk = 7 -> [m EXCEPT !.v[x] = m.delayTimer]
      [] kk = 10 -> OpWaitKey(m, x)
      [] kk = 21 -> [m EXCEPT !.delayTimer = m.v[x]]
      [] kk = 24 -> [m EXCEPT !.soundTimer = m.v[x]]
      [] kk = 30 -> [m EXCEPT !.i = m.i + m.v[x]]
      [] kk = 41 -> [m EXCEPT !.i = m.v[x] * 5]
      [] kk = 51 -> OpBcd(m, x)
      [] kk = 85 -> OpStore(m, x)
      [] kk = 101 -> OpLoad(m, x)
      [] OTHER -> m

\* The word thrown by the default branch of the outer switch.
Throw(m, opcode) == [m EXCEPT !.error = <<opcode>>]

\* executeInstruction(opcode); rand is the value Math.random() yields if the
\* instruction asks for one
executeInstruction(m0, opcode, rand) ==
    LET m == [m0 EXCEPT !.pc = PcPlus2(m0.pc)]
        group == opcode \div 4096
        x == (opcode \div 256) % 16
        y == (opcode \div 16) % 16
        nnn == opcode % 4096
        kk == opcode % 256
        n == opcode % 16
    IN CASE group = 0 -> Group0(m, opcode)
         [] group = 1 -> [m EXCEPT !.pc = nnn]
         [] group = 2 -> OpCall(m, nnn)
         [] group = 3 -> IF m.v[x] = kk THEN [m EXCEPT !.pc = PcPlus2(m.pc)] ELSE m
         [] group = 4 -> IF m.v[x] # kk THEN [m EXCEPT !.pc = PcPlus2(m.pc)] ELSE m
         [] group = 5 -> IF m.v[x] = m.v[y] THEN [m EXCEPT !.pc = PcPlus2(m.pc)] ELSE m
         [] group = 6 -> [m EXCEPT !.v[x] = kk]
         [] group = 7 -> [m EXCEPT !.v[x] = ToUint8(m.v[x] + kk)]
         [] group = 8 -> [m EXCEPT !.v = Group8(m.v, x, y, n)]
         [] group = 9 -> IF m.v[x] # m.v[y] THEN [m EXCEPT !.pc = PcPlus2(m.pc)] ELSE m
         [] group = 10 -> [m EXCEPT !.i = nnn]
         [] group = 11 -> [m EXCEPT !.pc = nnn + m.v[0]]
         [] group = 12 -> OpRandom(m, x, kk, rand)
         [] group = 13 -> OpDraw(m, x, y, n)
         [] group = 14 -> GroupE(m, x, kk)
         [] group = 15 -> GroupF(m, x, kk)
         [] OTHER -> Throw(m, opcode)

\* ------------------------------------------------------------ cpu.js: cycle
\* updateTimers without the tests for > 0: the timers are plain numbers, 0
\* goes to -1.
updateTimersUnfloored(m) ==
    [m EXCEPT !.delayTimer = @ - 1, !.soundTimer = @ - 1]

\* if (delayTimer > 0) delayTimer -= 1; if (soundTimer > 0) soundTimer -= 1
updateTimers(m) ==
    [m EXCEPT !.delayTimer = IF @ > 0 THEN @ - 1 ELSE @,
              !.soundTimer = IF @ > 0 THEN @ - 1 ELSE @]

\* speaker.play(440) or speaker.stop()
playSound(m) == [m EXCEPT !.speakerOn = (m.soundTimer > 0)]

\* What batch records of one executed instruction: where it was fetched, the
\* word, the call stack it found, and the program counter and the call stack
\* it left behind.
Executed(m0, opcode, m1) ==
    [pc |-> m0.pc, opcode |-> opcode, stack |-> m0.stack,
     pcAfter |-> m1.pc, stackAfter |-> m1.stack]

\* Iteration without the test of paused.
IterationWhilePaused(m) ==
    IF m.error # << >> THEN {m}
    ELSE LET opcode == Fetch(m.memory, m.pc)
             rands == IF opcode \div 4096 = 12 THEN RandomValues ELSE {0}
         IN { LET m1 == executeInstruction(m, opcode, rand)
              IN [m1 EXCEPT !.batch = Append(m.batch, Executed(m, opcode, m1))]
              : rand \in rands }

\* One iteration of the loop of cycle(): every machine it can leave behind
\* (one per value Math.random() can yield when the opcode is CXKK). After a
\* throw the loop is gone.
Iteration(m) ==
    IF m.paused \/ m.error # << >> THEN {m}
    ELSE LET opcode == Fetch(m.memory, m.pc)
             rands == IF opcode \div 4096 = 12 THEN RandomValues ELSE {0}
         IN { LET m1 == executeInstruction(m, opcode, rand)
              IN [m1 EXCEPT !.batch = Append(m.batch, Executed(m, opcode, m1))]
              : rand \in rands }

RECURSIVE Iterations(_, _)
Iterations(ms, k) ==
    IF k = 0 THEN ms ELSE Iterations(UNION {Iteration(m) : m \in ms}, k - 1)

\* AfterLoop with the timers ticking on every call.
AfterLoopAlways(m) ==
    IF m.error # << >> THEN m ELSE playSound(updateTimers(m))

\* The tail of cycle(): timers when not paused, sound, render (render paints
\* the canvas from display and changes no state of the machine).
AfterLoop(m) ==
    IF m.error # << >> THEN m
    ELSE playSound(IF ~m.paused THEN updateTimers(m) ELSE m)

\* cycle(): the machines one call can leave behind
cycle(m) == {AfterLoop(m1) : m1 \in Iterations({[m EXCEPT !.batch = << >>]}, speed)}

\* The variables take the values of machine m.
Becomes(m) ==
    /\ memory' = m.memory
    /\ v' = m.v
    /\ i' = m.i
    /\ delayTimer' = m.delayTimer
    /\ soundTimer' = m.soundTimer
    /\ pc' = m.pc
    /\ stack' = m.stack
    /\ paused' = m.paused
    /\ display' = m.display
    /\ onNextKeyPress' = m.onNextKeyPress
    /\ speakerOn' = m.speakerOn
    /\ error' = m.error
    /\ batch' = m.batch

\* ------------------------------------------------------------ program images
\* The bytes of a program given as its 16-bit words, high byte first.
Image(words) ==
    [k \in 1..(2 * Len(words)) |->
        IF k % 2 = 1 THEN words[(k + 1) \div 2] \div 256 ELSE words[k \div 2] % 256]

\* 200: V0 = 3; delay = V0; sound = V0; V3 = key; V3 += 1; 20A: jump 20A
RomWaitKey == Image(<<\h6003, \hF015, \hF018, \hF30A, \h7301, \h120A>>)

\* 200: V2 = key; V2 += 1; jump 200
RomWaitAgain == Image(<<\hF20A, \h7201, \h1200>>)

\* words of groups 8, E, F and 0 whose sub-selector names no operation, then
\* V1 = 1 and a jump to itself
RomUndefined == Image(<<\h8018, \hE000, \hF0FF, \h0123, \h6101, \h120A>>)

\* 200: call 206; 202: jump 202; 206: call 20C; 208: V0 += 1; 20A: return;
\* 20C: V1 += 1; 20E: return
RomCalls == Image(<<\h2206, \h1202, \h0000, \h220C, \h7001, \h00EE, \h7101, \h00EE>>)

\* 200: V0 = 1; skip if key V0 is held; jump 202; V1 += 1; jump 202
RomHeldKey == Image(<<\h6001, \hE09E, \h1202, \h7101, \h1202>>)

\* a return with nothing on the call stack
RomReturn == Image(<<\h00EE>>)

\* a subroutine that calls itself
RomRecursion == Image(<<\h2200>>)

\* 200: V0 = 2; delay = V0; sound = V0; 206: jump 206
RomTimers == Image(<<\h6002, \hF015, \hF018, \h1206>>)

Roms ==
    {RomWaitKey, RomWaitAgain, RomUndefined, RomCalls, RomHeldKey, RomReturn,
     RomRecursion, RomTimers}

\* event.which of the key events explored: X (key 0), 1 (key 1) and Enter
\* (not mapped)
Whichs == {88, 49, 13}

\* ms between two frame callbacks
FrameDeltas == {8, 17}

\* ------------------------------------------------------------ chip8.js
\* The state after the module has run: the objects constructed, init() done
\* (sprites loaded, the ROM request sent, the first frame scheduled).
Init ==
    /\ memory = loadSpritesIntoMemory(ZeroMemory)
    /\ v = [r \in Regs |-> 0]
    /\ i = 0
    /\ delayTimer = 0
    /\ soundTimer = 0
    /\ pc = ProgramStart
    /\ stack = << >>
    /\ paused = FALSE
    /\ display = EmptyDisplay
    /\ keysPressed = << >>
    /\ onNextKeyPress = Null
    /\ speakerOn = FALSE
    /\ request = "sent"
    /\ now = 0
    /\ loop = TRUE
    /\ error = << >>
    /\ batch = << >>

\* request.onload with a response: the program is copied to 0x200
OnLoad(program) ==
    /\ request = "sent"
    /\ request' = "done"
    /\ memory' = loadProgramIntoMemory(memory, program)
    /\ UNCHANGED <<v, i, delayTimer, soundTimer, pc, stack, paused, display,
                   keysPressed, onNextKeyPress, speakerOn, now, loop, error, batch>>

\* request.onload without a response: nothing is loaded
OnLoadEmpty ==
    /\ request = "sent"
    /\ request' = "done"
    /\ UNCHANGED <<memory, v, i, delayTimer, soundTimer, pc, stack, paused, display,
                   keysPressed, onNextKeyPress, speakerOn, now, loop, error, batch>>

\* step(), d ms after the previous frame callback: then is never advanced, so
\* elapsed is the time since init()
Step(d) ==
    /\ loop
    /\ now + d <= MaxNow
    /\ now' = now + d
    /\ IF now' * fps > 1000
       THEN \E m \in cycle(Machine) :
                /\ Becomes(m)
                /\ loop' = (m.error = << >>)
       ELSE UNCHANGED <<memory, v, i, delayTimer, soundTimer, pc, stack, paused,
                        display, onNextKeyPress, speakerOn, loop, error, batch>>
    /\ UNCHANGED <<keysPressed, request>>

\* KeyDown that leaves the callback registered after it has invoked it.
KeyDownKeepsCallback(which) ==
    LET key == KeyOf(which)
    IN /\ keysPressed' = [k \in (DOMAIN keysPressed) \cup {key} |->
                             IF k = key THEN TRUE ELSE keysPressed[k]]
       /\ IF onNextKeyPress # Null /\ Truthy(key)
          THEN /\ v' = [v EXCEPT ![onNextKeyPress] = key]
               /\ paused' = FALSE
               /\ UNCHANGED onNextKeyPress
          ELSE UNCHANGED <<v, paused, onNextKeyPress>>
       /\ UNCHANGED <<memory, i, delayTimer, soundTimer, pc, stack, display,
                      speakerOn, request, now, loop, error, batch>>

\* keyboard.onKeyDown(event)
KeyDown(which) ==
    LET key == KeyOf(which)
    IN /\ keysPressed' = [k \in (DOMAIN keysPressed) \cup {key} |->
                             IF k = key THEN TRUE ELSE keysPressed[k]]
       /\ IF onNextKeyPress # Null /\ Truthy(key)
          THEN /\ v' = [v EXCEPT ![onNextKeyPress] = key]
               /\ paused' = FALSE
               /\ onNextKeyPress' = Null
          ELSE UNCHANGED <<v, paused, onNextKeyPress>>
       /\ UNCHANGED <<memory, i, delayTimer, soundTimer, pc, stack, display,
                      speakerOn, request, now, loop, error, batch>>

\* keyboard.onKeyUp(event)
KeyUp(which) ==
    LET key == KeyOf(which)
    IN /\ keysPressed' = [k \in (DOMAIN keysPressed) \cup {key} |->
                             IF k = key THEN FALSE ELSE keysPressed[k]]
       /\ UNCHANGED <<memory, v, i, delayTimer, soundTimer, pc, stack, paused, display,
                      onNextKeyPress, speakerOn, request, now, loop, error, batch>>

Next ==
    \/ \E program \in Roms : OnLoad(program)
    \/ OnLoadEmpty
    \/ \E d \in FrameDeltas : Step(d)
    \/ \E which \in Whichs : KeyDown(which)
    \/ \E which \in Whichs : KeyUp(which)

Spec == Init /\ [][Next]_vars

\* ------------------------------------------------------------ single calls
\* cpu.cycle() called on its own.
Cycle ==
    /\ \E m \in cycle(Machine) : Becomes(m)
    /\ UNCHANGED <<keysPressed, request, now, loop>>

\* The machine in the middle of a run: the program loaded, data written at
\* dataAddr by earlier instructions, the registers, I and the display as
\* earlier instructions may have left them, PC back at 0x200, 17 ms after
\* init().
Running(program, dataAddr, data, regs, addr, d) ==
    /\ memory = CopyIn(loadProgramIntoMemory(loadSpritesIntoMemory(ZeroMemory), program),
                       dataAddr, data)
    /\ v = regs
    /\ i = addr
    /\ delayTimer = 0
    /\ soundTimer = 0
    /\ pc = ProgramStart
    /\ stack = << >>
    /\ paused = FALSE
    /\ display = d
    /\ keysPressed = << >>
    /\ onNextKeyPress = Null
    /\ speakerOn = FALSE
    /\ request = "done"
    /\ now = 17
    /\ loop = TRUE
    /\ error = << >>
    /\ batch = << >>

\* Register values explored by the arithmetic instructions.
ByteSample == {0, 1, 127, 128, 255}

AluX == {0, 7, 14}

AluY == {0, 7, 15}

AluN == {0, 1, 2, 3, 4, 5, 6, 7, 8, 14}

\* 200: 8XYN; 202: jump 202, with VX, VY and VF drawn from ByteSample
InitAlu ==
    \E x \in AluX, y \in AluY, n \in AluN, a, b, f \in ByteSample :
        Running(Image(<<8 * 4096 + x * 256 + y * 16 + n, \h1202>>), 0, << >>,
                [r \in Regs |-> IF r = x THEN a ELSE IF r = y THEN b
                                ELSE IF r = 15 THEN f ELSE 0],
                0, EmptyDisplay)

SpecAlu == InitAlu /\ [][Cycle]_vars

\* Sprite data placed at 0x300 (the font glyphs at 0 are the other source).
SpriteSample == {<<\h80>>, <<\hFF, \h01>>, <<\h00>>}

SpriteAddr == 768

DrawVx == {0, 60, 64, 255}

DrawVy == {0, 31, 32, 255}

DrawN == {0, 1, 5, 15}

DrawXY == {<<0, 1>>, <<2, 2>>}

\* Displays explored: nothing written yet; the first 8 pixels of row 0 lit;
\* every other pixel of row 0 and of the start of row 1 lit, the ones between
\* them written and unlit.
DisplaySample ==
    {EmptyDisplay, [p \in 0..7 |-> 1], [p \in 0..71 |-> (p + 1) % 2]}

\* 200: DXYN; 202: jump 202 -- or 200: DXYN; 202: DXYN; 204: jump 204
InitDraw ==
    \E xy \in DrawXY, n \in DrawN, a \in DrawVx, b \in DrawVy, f \in {0, 7},
       addr \in {0, SpriteAddr}, bytes \in SpriteSample, d \in DisplaySample,
       twice \in BOOLEAN :
        LET word == 13 * 4096 + xy[1] * 256 + xy[2] * 16 + n
            words == IF twice THEN <<word, word, \h1204>> ELSE <<word, \h1202>>
        IN /\ addr = 0 => bytes = <<\h80>>
           /\ Running(Image(words), SpriteAddr, bytes,
                      [r \in Regs |-> IF r = xy[1] THEN a ELSE IF r = xy[2] THEN b
                                      ELSE IF r = 15 THEN f ELSE 0],
                      addr, d)

SpecDraw == InitDraw /\ [][Cycle]_vars

\* Registers X explored by the instructions that read one register.
RegX == {0, 7, 14, 15}

\* Values of I explored by FX33: the font area, free memory, the last three
\* cells of memory, and one past them.
AddrSample == {0, 768, 4093, 4094}

\* Masks KK explored by CXKK.
MaskSample == {0, 15, 255}

\* The words explored, for register x: 8X0E, 8XFE, FX33, FX29, CXKK
RegWords(x) ==
    {\h800E + x * 256, \h80FE + x * 256, \hF033 + x * 256, \hF029 + x * 256}
        \cup {\hC000 + x * 256 + kk : kk \in MaskSample}

\* 200: the word; 202: jump 202, with VF stale, VX any byte (for CXKK, which
\* overwrites VX, 0 or 255), and I drawn from AddrSample when the word is
\* FX33
InitReg ==
    \E x \in RegX, a \in Byte, addr \in AddrSample :
        \E word \in RegWords(x) :
            /\ (word % 256 # \h33 \/ word \div 4096 # 15) => addr = 768
            /\ word \div 4096 = 12 => a \in {0, 255}
            /\ Running(Image(<<word, \h1202>>), 0, << >>,
                       [r \in Regs |-> IF r = x THEN a ELSE IF r = 15 THEN 7 ELSE 0],
                       addr, EmptyDisplay)

SpecReg == InitReg /\ [][Cycle]_vars

\* ------------------------------------------------------------ properties
\* A step in which cycle() was called.
CycleRan == now' # now /\ now' * fps > 1000

IsWaitKey(opcode) == opcode \div 4096 = 15 /\ opcode % 256 = 10

\* C1: after FX0A executes the machine is paused and nothing more executes,
\* in the same batch or in later ones; a press of any logical key k in 0..15
\* then stores k in VX and clears the pause flag, and the next cycle()
\* executes instructions again.
C1_WaitForKey ==
    [][ /\ CycleRan =>
            \A j \in 1..Len(batch') :
                IsWaitKey(batch'[j].opcode) => (j = Len(batch') /\ paused')
        /\ (CycleRan /\ paused) => batch' = << >>
        /\ \A which \in Whichs :
              (paused /\ onNextKeyPress # Null /\ KeyOf(which) \in 0..15 /\ KeyDown(which))
                  => (v'[onNextKeyPress] = KeyOf(which) /\ ~paused')
        /\ (CycleRan /\ ~paused) => batch' # << >>
      ]_vars

\* The value a timer holding t has after one tick.
Ticked(t) == IF t > 0 THEN t - 1 ELSE t

\* Whether the word sets the delay timer (FX15) or the sound timer (FX18).
IsTimerWrite(opcode) == opcode \div 4096 = 15 /\ opcode % 256 \in {21, 24}

C3_LoadedBeforeFirstCycle ==
    request = "sent" => (batch = << >> /\ pc = ProgramStart)

\* Words of groups 8, E and F whose sub-selector names no operation.
UndefinedSubOpcode(opcode) ==
    \/ opcode \div 4096 = 8 /\ opcode % 16 \notin {0, 1, 2, 3, 4, 5, 6, 7, 14}
    \/ opcode \div 4096 = 14 /\ opcode % 256 \notin {158, 161}
    \/ opcode \div 4096 = 15 /\ opcode % 256 \notin {7, 10, 21, 24, 30, 41, 51, 85, 101}

\* C4: an instruction word whose sub-selector matches no sub-opcode of its
\* group is reported as an error carrying the word, and is the last
\* instruction that executes.
C4_DecodeErrorReported ==
    \A j \in 1..Len(batch) :
        UndefinedSubOpcode(batch[j].opcode) =>
            (error = <<batch[j].opcode>> /\ j = Len(batch) /\ ~loop)

IsCall(opcode) == opcode \div 4096 = 2

IsReturn(opcode) == opcode = 238

\* In the last batch, instruction k is the return that matches call j: it
\* brings the call stack back to the depth call j found, and nothing between
\* them went below the depth call j left.
Matches(j, k) ==
    /\ j < k
    /\ IsCall(batch[j].opcode)
    /\ IsReturn(batch[k].opcode)
    /\ Len(batch[k].stackAfter) = Len(batch[j].stack)
    /\ \A l \in j..(k - 1) : Len(batch[l].stackAfter) > Len(batch[j].stack)

\* C10: a CALL fetched at P - 2 and its matching RETURN: the return sets
\* PC = P and leaves the call stack as the call found it, whatever balanced
\* calls and returns ran in between.
C10_CallReturnRoundTrip ==
    \A j, k \in 1..Len(batch) :
        Matches(j, k) =>
            /\ batch[k].pcAfter = batch[j].pc + 2
            /\ batch[k].stackAfter = batch[j].stack

\* C10 witness: a call has returned after a nested call and return.
C10_Witness ==
    \E j, k \in 1..Len(batch) :
        /\ Matches(j, k)
        /\ \E l, n \in (j + 1)..(k - 1) : Matches(l, n)

\* The word at 0x200 and the one after it.
Word1 == Fetch(memory, ProgramStart)

Word2 == Fetch(memory, ProgramStart + 2)

OpX(opcode) == (opcode \div 256) % 16

OpY(opcode) == (opcode \div 16) % 16

\* The machine is about to run a program that starts with 8XYn.
AboutToRunAlu(n) == pc = ProgramStart /\ Word1 \div 4096 = 8 /\ Word1 % 16 = n

\* C5: SUB (8XY5), X other than F, any Y: VX = (a - b) mod 256 and VF = 1 if
\* a > b, else 0, for the values a = VX and b = VY held before.
C5_Sub ==
    [][(AboutToRunAlu(5) /\ OpX(Word1) # 15) =>
          LET a == v[OpX(Word1)]
              b == v[OpY(Word1)]
          IN /\ v'[OpX(Word1)] = (a - b + 256) % 256
             /\ v'[15] = IF a > b THEN 1 ELSE 0]_vars

\* C6: ADD (8XY4), X other than F, any Y: VX = (a + b) mod 256 and VF = 1 if
\* a + b > 255, else 0, for the values a = VX and b = VY held before.
C6_Add ==
    [][(AboutToRunAlu(4) /\ OpX(Word1) # 15) =>
          LET a == v[OpX(Word1)]
              b == v[OpY(Word1)]
          IN /\ v'[OpX(Word1)] = (a + b) % 256
             /\ v'[15] = IF a + b > 255 THEN 1 ELSE 0]_vars

\* C6 witness: an ADD whose source register is VF has run and carried.
C6_Witness ==
    /\ Len(batch) > 0
    /\ batch[1].opcode \div 4096 = 8
    /\ batch[1].opcode % 16 = 4
    /\ OpX(batch[1].opcode) # 15
    /\ OpY(batch[1].opcode) = 15
    /\ v[15] = 1

IsDraw(opcode) == opcode \div 4096 = 13

\* The machine is about to run a program that draws once with DXYN, X and Y
\* other than F.
AboutToDrawOnce ==
    /\ pc = ProgramStart
    /\ IsDraw(Word1)
    /\ Word2 # Word1
    /\ OpX(Word1) # 15
    /\ OpY(Word1) # 15

\* The machine is about to run a program that draws the same DXYN twice in a
\* row, X and Y other than F.
AboutToDrawTwice ==
    /\ pc = ProgramStart
    /\ IsDraw(Word1)
    /\ Word2 = Word1
    /\ OpX(Word1) # 15
    /\ OpY(Word1) # 15

\* The <<row, col>> of the set bits of the sprite DXYN at 0x200 reads.
SpriteBits ==
    {rc \in (0..((Word1 % 16) - 1)) \X (0..(width - 1)) :
        (MemRead(memory, i + rc[1]) \div (2 ^ (7 - rc[2]))) % 2 = 1}

\* The cells the claim says the sprite toggles: coordinates modulo the size.
CellsModulo ==
    {((v[OpX(Word1)] + rc[2]) % cols) + cols * ((v[OpY(Word1)] + rc[1]) % rows) :
        rc \in SpriteBits}

\* The cells setPixel is asked to toggle.
CellsTouched ==
    {PixelIndex(v[OpX(Word1)] + rc[2], v[OpY(Word1)] + rc[1]) : rc \in SpriteBits}

\* C7: the pixel toggle wraps modulo the display size: a draw toggles
\* exactly the cells (x mod 64, y mod 32) of its set bits, and writes no cell
\* outside the 2048-cell grid.
C7_PixelWrapsModulo ==
    [][AboutToDrawOnce =>
          /\ DOMAIN display' \subseteq 0..(cols * rows - 1)
          /\ \A p \in 0..(cols * rows - 1) :
                (PixelAt(display', p) # PixelAt(display, p)) <=> (p \in CellsModulo)]_vars

\* C8: drawing the same sprite twice in a row at the same place leaves every
\* pixel of the display as it was before the first draw.
C8_DrawTwiceRestores ==
    [][AboutToDrawTwice =>
          \A p \in (DOMAIN display) \cup (DOMAIN display') :
              PixelAt(display', p) = PixelAt(display, p)]_vars

\* The last batch began with the same draw executed twice at 0x200.
DrewTwice ==
    /\ Len(batch) >= 2
    /\ batch[1].pc = ProgramStart
    /\ IsDraw(batch[1].opcode)
    /\ batch[2].opcode = batch[1].opcode
    /\ OpX(batch[1].opcode) # 15
    /\ OpY(batch[1].opcode) # 15

\* C8 witness: a sprite with set bits has been drawn twice on a display
\* nothing had been written to: the cells it toggled are unlit again.
C8_Witness ==
    /\ DrewTwice
    /\ display # EmptyDisplay
    /\ \A p \in DOMAIN display : display[p] = 0

\* C9 as stated: after the second of two identical draws VF is 1 whenever a
\* pixel the sprite touches was lit before the first draw.
C9_FlagIfLitBefore ==
    [][(AboutToDrawTwice /\ \E p \in CellsTouched : PixelAt(display, p) = 1) =>
          v'[15] = 1]_vars

\* C9 amended: after the second of two identical draws VF is 1 whenever a
\* pixel the sprite touches was unlit before the first draw (the first draw
\* lights it, the second erases it).
C9_FlagIfUnlitBefore ==
    [][(AboutToDrawTwice /\ \E p \in CellsTouched : PixelAt(display, p) = 0) =>
          v'[15] = 1]_vars

\* C9 witness: a sprite has been drawn twice over a display with lit pixels
\* and the second draw reported an erase.
C9_Witness ==
    /\ DrewTwice
    /\ v[15] = 1
    /\ \E p \in DOMAIN display : display[p] = 1

\* C11: a cycle() call made while the machine is paused executes no
\* instruction and leaves PC, the registers, I, memory, the call stack and
\* the display as they are; and the pause flag goes back to false only in a
\* key-press event, never in a cycle() call or a load.
C11_PausedFrame ==
    [][ /\ (CycleRan /\ paused) =>
              /\ batch' = << >>
              /\ paused'
              /\ UNCHANGED <<pc, v, i, memory, stack, display>>
        /\ (paused /\ ~paused') =>
              /\ ~CycleRan
              /\ \E which \in Whichs : KeyDown(which)
      ]_vars

\* C11 witness: the machine has waited for a key, been resumed by a key
\* press, executed FX0A again, and a cycle() call has run while it waits.
C11_Witness ==
    /\ paused
    /\ batch = << >>
    /\ Word1 = \hF20A
    /\ v[2] = 2
    /\ pc = ProgramStart + 2

\* The last instruction executed was a wait for a key.
WaitKeyRanLast == batch # << >> /\ IsWaitKey(batch[Len(batch)].opcode)

\* C12: the callback of FX0A is one-shot: a key press that invokes it
\* unregisters it; while none is registered a key press writes no register
\* and leaves the pause flag alone; and one is registered again only by a
\* cycle() call that executes FX0A.
C12_CallbackOneShot ==
    [][\A which \in Whichs :
          /\ (KeyDown(which) /\ onNextKeyPress # Null /\ v' # v)
                => onNextKeyPress' = Null
          /\ (KeyDown(which) /\ onNextKeyPress # Null /\ ~paused')
                => onNextKeyPress' = Null
          /\ (KeyDown(which) /\ onNextKeyPress = Null)
                => (v' = v /\ paused' = paused)
          /\ (onNextKeyPress = Null /\ onNextKeyPress' # Null)
                => (CycleRan /\ WaitKeyRanLast')
      ]_vars

\* C12 witness: the callback of F30A has fired on key 1 (V3 = 1, running
\* again, no cycle() call since), and key 0 and an unmapped key are down as
\* well.
C12_Witness ==
    /\ WaitKeyRanLast
    /\ OpX(batch[Len(batch)].opcode) = 3
    /\ ~paused
    /\ onNextKeyPress = Null
    /\ v[3] = 1
    /\ isKeyPressed(keysPressed, 0)
    /\ isKeyPressed(keysPressed, Undefined)

\* C13: the timers stay in 0..255; a cycle() call whose batch writes no timer
\* leaves each timer as it was or one lower, whatever the number of
\* instructions it ran, and one lower if the timer was not 0 and the call
\* does not end paused: a timer at 1 becomes 0 and a timer at 0 stays 0.
C13_TimersFloored ==
    [][ /\ delayTimer' \in Byte
        /\ soundTimer' \in Byte
        /\ (CycleRan /\ \A j \in 1..Len(batch') : ~IsTimerWrite(batch'[j].opcode)) =>
              /\ delayTimer' \in {delayTimer, Ticked(delayTimer)}
              /\ soundTimer' \in {soundTimer, Ticked(soundTimer)}
              /\ delayTimer = 0 => delayTimer' = 0
              /\ soundTimer = 0 => soundTimer' = 0
              /\ (~paused' /\ delayTimer > 0) => delayTimer' = delayTimer - 1
              /\ (~paused' /\ soundTimer > 0) => soundTimer' = soundTimer - 1
      ]_vars

\* C13 witness: the program that set both timers to 2 has run three cycle()
\* calls of ten instructions: 2 to 1 in the first, 1 to 0, and 0 to 0.
C13_Witness ==
    /\ Word1 = \h6002
    /\ now = 33
    /\ pc = ProgramStart + 6
    /\ Len(batch) = speed
    /\ delayTimer = 0
    /\ soundTimer = 0
    /\ v[0] = 2

\* The machine is about to run a program that starts with FXkk.
AboutToRunF(kk) == pc = ProgramStart /\ Word1 \div 4096 = 15 /\ Word1 % 256 = kk

\* The machine is about to run a program that starts with CXKK.
AboutToRunRandom == pc = ProgramStart /\ Word1 \div 4096 = 12

\* C14: left shift (8XYE), X other than F, a = VX before: afterwards
\* VX = (2 * a) mod 256 and VF = 0x80 if the top bit of a was set, else 0;
\* a = 0x81 gives VX = 0x02 and VF = 0x80.
C14_ShiftLeft ==
    [][(AboutToRunAlu(14) /\ OpX(Word1) # 15) =>
          LET a == v[OpX(Word1)]
          IN /\ v'[OpX(Word1)] = (2 * a) % 256
             /\ v'[15] = IF a >= 128 THEN 128 ELSE 0
             /\ a = 129 => (v'[OpX(Word1)] = 2 /\ v'[15] = 128)]_vars

\* C14 witness: a left shift of a register other than VF that held 0x81 has
\* run.
C14_Witness ==
    /\ Len(batch) > 0
    /\ batch[1].opcode \div 4096 = 8
    /\ batch[1].opcode % 16 = 14
    /\ OpX(batch[1].opcode) # 15
    /\ v[OpX(batch[1].opcode)] = 2
    /\ v[15] = 128

\* C15: FX33 with v = VX and I + 2 <= 4095: afterwards memory[I] = v div 100,
\* memory[I + 1] = (v div 10) mod 10, memory[I + 2] = v mod 10, and no other
\* memory cell, no register and not I has changed.
C15_Bcd ==
    [][(AboutToRunF(51) /\ i + 2 <= MemSize - 1) =>
          LET val == v[OpX(Word1)]
          IN /\ MemRead(memory', i) = val \div 100
             /\ MemRead(memory', i + 1) = (val \div 10) % 10
             /\ MemRead(memory', i + 2) = val % 10
             /\ \A a \in ((DOMAIN memory) \cup (DOMAIN memory')) \ {i, i + 1, i + 2} :
                    MemRead(memory', a) = MemRead(memory, a)
             /\ v' = v
             /\ i' = i]_vars

\* C15 witness: FX33 has stored the digits 2, 5, 5 of 255 in the last three
\* cells of memory.
C15_Witness ==
    /\ Len(batch) > 0
    /\ batch[1].opcode \div 4096 = 15
    /\ batch[1].opcode % 256 = 51
    /\ v[OpX(batch[1].opcode)] = 255
    /\ i = MemSize - 3
    /\ MemRead(memory, i) = 2
    /\ MemRead(memory, i + 1) = 5
    /\ MemRead(memory, i + 2) = 5

\* C16: FX29 with v = VX: afterwards I = (v AND 0xF) * 5, one of the 16 glyph
\* bases 0, 5, ..., 75.
C16_FontAddress ==
    [][AboutToRunF(41) =>
          /\ i' = BitAnd(v[OpX(Word1)], 15) * 5
          /\ i' \in {5 * g : g \in 0..15}]_vars

\* C17: CXKK: every value r AND KK with r in 0..255 is a possible content of
\* VX after the instruction, that is, the content of VX in one of the
\* machines the cycle() call can leave behind; with KK = 0xFF, 255 is.
C17_RandomWholeByte ==
    AboutToRunRandom =>
        LET outcomes == {m.v[OpX(Word1)] : m \in cycle(Machine)}
        IN \A r \in Byte : BitAnd(r, Word1 % 256) \in outcomes

\* C18: DXYN, X and Y other than F: afterwards VF = 1 if a pixel the sprite
\* toggles was lit before it was toggled, and VF = 0 otherwise (N = 0 and an
\* all-zero sprite included), whatever VF held before. The set bits of one
\* sprite address distinct cells, so a pixel is lit before it is toggled
\* exactly if it was lit before the instruction.
C18_CollisionFlag ==
    [][AboutToDrawOnce =>
          /\ Cardinality(CellsTouched) = Cardinality(SpriteBits)
          /\ v'[15] = IF \E p \in CellsTouched : PixelAt(display, p) = 1 THEN 1 ELSE 0]_vars

\* C18 witness: one draw has run on a display with lit pixels, has erased
\* one of them and left VF = 1.
C18_Witness ==
    /\ Len(batch) >= 2
    /\ batch[1].pc = ProgramStart
    /\ IsDraw(batch[1].opcode)
    /\ batch[2].opcode # batch[1].opcode
    /\ v[15] = 1
    /\ \E p \in DOMAIN display : display[p] = 0
    /\ \E p \in DOMAIN display : display[p] = 1

\* C19: PC is a defined integer in 0..0xFFFF in every reachable state.
C19_PcValid == pc \in 0..65535

\* C20: the call stack never holds more than 16 return addresses.
C20_StackBound == Len(stack) <= 16

\* C21: in every reachable state the machine is paused if and only if a
\* key callback is registered: no callback is pending while the machine
\* runs, and the machine is never paused without one.
C21_PausedIffCallback == paused <=> (onNextKeyPress # Null)

\* C21 witness: the machine waits for a key for the second time (the first
\* wait was ended by key 1 and FX0A has just run again), key 0 has been
\* pressed too, and the callback for V2 is pending.
C21_Witness ==
    /\ WaitKeyRanLast
    /\ Len(batch) > 1
    /\ paused
    /\ onNextKeyPress = 2
    /\ v[2] = 2
    /\ isKeyPressed(keysPressed, 0)

====
